---- MODULE Spec2Model ----
(***************************************************************************)
(* Model of the timer calculation core, src/wasm/timer_calculation.rs.     *)
(*                                                                         *)
(* Machine integers keep their Rust width.  A u64 is a tuple of four       *)
(* 16-bit limbs and a u32 a tuple of two, most significant limb first, so  *)
(* that the wrapping u64 subtraction, the division by 1000 and the         *)
(* truncating `as u32` cast of update() are computed at full width.        *)
(***************************************************************************)
EXTENDS Integers, Sequences, FiniteSets, TLC

\* ------------------------------------------------------------------------
\* Bounds of the model
\* ------------------------------------------------------------------------
MaxDuration == 2      \* durations passed to new/reset/resume: 0..MaxDuration
MaxTicks == 2         \* number of clock changes in one behaviour
MaxBatch == 2         \* length of the vectors passed to the batch helpers
JitterMs == 3         \* a backward clock step of a few milliseconds

\* ------------------------------------------------------------------------
\* Fixed-width arithmetic
\* ------------------------------------------------------------------------
Base == 65536
MsPerSecond == 1000
SecPerMinute == 60

Limb == 0..(Base - 1)

U32(n) == <<n \div Base, n % Base>>
U64(n) == <<0, 0, n \div Base, n % Base>>
Zero32 == <<0, 0>>
Ext32(a) == <<0, 0, a[1], a[2]>>

\* lexicographic order on limb tuples of equal length
Lt32(a, b) == \/ a[1] < b[1]
              \/ a[1] = b[1] /\ a[2] < b[2]
Le32(a, b) == a = b \/ Lt32(a, b)
Lt64(x, y) == \/ x[1] < y[1]
              \/ x[1] = y[1] /\ x[2] < y[2]
              \/ x[1] = y[1] /\ x[2] = y[2] /\ x[3] < y[3]
              \/ x[1] = y[1] /\ x[2] = y[2] /\ x[3] = y[3] /\ x[4] < y[4]
Le64(x, y) == x = y \/ Lt64(x, y)

\* u64 addition; carry = 1 when the sum does not fit
Add64(x, y) ==
    LET s4 == x[4] + y[4]
        s3 == x[3] + y[3] + (s4 \div Base)
        s2 == x[2] + y[2] + (s3 \div Base)
        s1 == x[1] + y[1] + (s2 \div Base)
    IN  [val |-> <<s1 % Base, s2 % Base, s3 % Base, s4 % Base>>,
         carry |-> s1 \div Base]

\* u64 subtraction modulo 2^64; borrow = 1 when y > x (arithmetic overflow)
Sub64(x, y) ==
    LET d4 == x[4] - y[4]
        b4 == IF d4 < 0 THEN 1 ELSE 0
        d3 == x[3] - y[3] - b4
        b3 == IF d3 < 0 THEN 1 ELSE 0
        d2 == x[2] - y[2] - b3
        b2 == IF d2 < 0 THEN 1 ELSE 0
        d1 == x[1] - y[1] - b2
        b1 == IF d1 < 0 THEN 1 ELSE 0
    IN  [val |-> <<(d1 + Base) % Base, (d2 + Base) % Base,
                   (d3 + Base) % Base, (d4 + Base) % Base>>,
         borrow |-> b1]

\* u64 / k for a small divisor k (long division, limb by limb)
Div64(x, k) ==
    LET n1 == x[1]
        n2 == (n1 % k) * Base + x[2]
        n3 == (n2 % k) * Base + x[3]
        n4 == (n3 % k) * Base + x[4]
    IN  <<n1 \div k, n2 \div k, n3 \div k, n4 \div k>>

\* `as u32`: keeps the low 32 bits
Trunc32(x) == <<x[3], x[4]>>

\* u32 subtraction modulo 2^32
WrappingSub32(a, b) ==
    LET d2 == a[2] - b[2]
        b2 == IF d2 < 0 THEN 1 ELSE 0
        d1 == a[1] - b[1] - b2
    IN  <<(d1 + Base) % Base, (d2 + Base) % Base>>

\* a subtraction that wraps below zero instead of saturating
wrapping_sub_in_update(a, b) == WrappingSub32(a, b)

\* u32::saturating_sub
SaturatingSub32(a, b) == IF Lt32(a, b) THEN Zero32 ELSE WrappingSub32(a, b)

\* u32 / k and u32 % k for a small divisor k; the quotient as a number
\* (it is below 2^31 for every k >= 3)
Div32(a, k) == ((a[1] \div k) * Base) + ((((a[1] % k) * Base) + a[2]) \div k)
Mod32(a, k) == (((a[1] % k) * Base) + a[2]) % k

\* ------------------------------------------------------------------------
\* format!("{:02}:{:02}", mins, secs): decimal text, a sequence of characters
\* ------------------------------------------------------------------------
DigitChars == <<"0", "1", "2", "3", "4", "5", "6", "7", "8", "9">>

RECURSIVE Decimal(_)
Decimal(n) == IF n < 10 THEN <<DigitChars[n + 1]>>
              ELSE Append(Decimal(n \div 10), DigitChars[(n % 10) + 1])

\* {}: decimal text without padding
unpadded(n) == Decimal(n)

\* {:02}: zero-padded to a minimum width of two, never truncated
Pad02(n) == IF Len(Decimal(n)) < 2 THEN <<"0">> \o Decimal(n) ELSE Decimal(n)

format_time(seconds) ==
    LET mins == Div32(seconds, SecPerMinute)
        secs == Mod32(seconds, SecPerMinute)
    IN  Pad02(mins) \o <<":">> \o Pad02(secs)

\* ------------------------------------------------------------------------
\* f64 progress figure.  (elapsed as f64 / total as f64) * 100.0 is kept as
\* the exact ratio [num, den] of two u32 values; the percentage is
\* 100 * num / den.  The guarded case returns the ratio 0 / 1.
\* ------------------------------------------------------------------------
ZeroProgress == [num |-> Zero32, den |-> U32(1)]

calculate_progress(elapsed, dur) ==
    IF dur = Zero32 THEN ZeroProgress
    ELSE [num |-> elapsed, den |-> dur]

ProgressIsZero(p) == p.num = Zero32
ProgressAtMost100(p) == Le32(p.num, p.den)

\* ------------------------------------------------------------------------
\* State
\* ------------------------------------------------------------------------
TimerState == {"Focus", "Break", "MicroBreak"}

Durations == {U32(d) : d \in 0..MaxDuration}

\* js_sys::Date::now() as u64: milliseconds since the epoch
Epoch0 == <<0, 395, 53221, 26624>>     \* 1 700 000 000 000 ms
MaxDate == <<30, 45576, 49884, 0>>     \* 8.64e15 ms, the largest Date value
WrapJump == <<0, MsPerSecond, 0, 0>>   \* 2^32 seconds, in milliseconds
StepsMs == {U64(400), U64(MsPerSecond), WrapJump}

VARIABLES
    start_time,       \* TimerCalculator.start_time : u64
    duration,         \* TimerCalculator.duration : u32
    current_time,     \* TimerCalculator.current_time : u32
    state,            \* TimerCalculator.state : TimerState
    clock,            \* the reading js_sys::Date::now() gives at this moment
    ticks,            \* number of clock changes so far
    overflow_checks,  \* build setting: arithmetic overflow panics / wraps
    panicked,         \* a call has aborted
    ret,              \* the most recent call: name, arguments, result
    anchor            \* the most recent new/reset/resume: name, arguments, instant

vars == <<start_time, duration, current_time, state, clock, ticks,
          overflow_checks, panicked, ret, anchor>>

engine == <<start_time, duration, current_time, state>>

\* the elapsed time left in milliseconds: the division by 1000 is missing
elapsed_millis(now, start) == Trunc32(Sub64(now, start).val)

\* ((now - self.start_time) / 1000) as u32, with the subtraction taken modulo 2^64
elapsed_seconds(now, start) ==
    Trunc32(Div64(Sub64(now, start).val, MsPerSecond))

\* now - self.start_time overflows u64
sub_overflows(now, start) == Sub64(now, start).borrow = 1

\* a transition table that sends a completed MicroBreak to Break
next_state_micro_to_break(s, completed) ==
    CASE s = "Focus" /\ completed -> "Break"
      [] s = "Break" /\ completed -> "Focus"
      [] s = "MicroBreak" /\ completed -> "Break"
      [] OTHER -> s

\* a transition table with a long break: a completed Break goes to MicroBreak
next_state_break_to_micro(s, completed) ==
    CASE s = "Focus" /\ completed -> "Break"
      [] s = "Break" /\ completed -> "MicroBreak"
      [] s = "MicroBreak" /\ completed -> "Focus"
      [] OTHER -> s

\* match self.state { ... }
next_state(s, completed) ==
    CASE s = "Focus" /\ completed -> "Break"
      [] s = "Break" /\ completed -> "Focus"
      [] s = "MicroBreak" /\ completed -> "Focus"
      [] OTHER -> s

Init ==
    /\ clock = Epoch0
    /\ ticks = 0
    /\ overflow_checks \in BOOLEAN
    /\ panicked = FALSE
    /\ \E d \in Durations, s \in TimerState :
         /\ start_time = clock
         /\ duration = d
         /\ current_time = d
         /\ state = s
         /\ ret = [op |-> "new", now |-> clock, duration |-> d, state |-> s]
         /\ anchor = [op |-> "new", d |-> d, p |-> s, t |-> clock]

\* ------------------------------------------------------------------------
\* The clock
\* ------------------------------------------------------------------------
AdvanceClock ==
    /\ ticks < MaxTicks
    /\ \E step \in StepsMs :
         /\ Add64(clock, step).carry = 0
         /\ Le64(Add64(clock, step).val, MaxDate)
         /\ clock' = Add64(clock, step).val
    /\ ticks' = ticks + 1
    /\ UNCHANGED <<engine, overflow_checks, panicked, ret, anchor>>

\* the next reading is a few milliseconds earlier than the previous one
ClockJitter ==
    /\ ticks < MaxTicks
    /\ Sub64(clock, U64(JitterMs)).borrow = 0
    /\ clock' = Sub64(clock, U64(JitterMs)).val
    /\ ticks' = ticks + 1
    /\ UNCHANGED <<engine, overflow_checks, panicked, ret, anchor>>

\* ------------------------------------------------------------------------
\* Operations of TimerCalculator
\* ------------------------------------------------------------------------
\* an update() that restarts the countdown segment at every call
UpdateReanchors ==
    /\ ~panicked
    /\ LET now == clock
           elapsed == elapsed_seconds(now, start_time)
           remaining == SaturatingSub32(duration, elapsed)
       IN  /\ sub_overflows(now, start_time) => ~overflow_checks
           /\ start_time' = now
           /\ current_time' = remaining
           /\ ret' = [op |-> "update", outcome |-> "ok", now |-> now,
                      time |-> remaining,
                      formatted_time |-> format_time(remaining),
                      progress |-> calculate_progress(elapsed, duration),
                      remaining |-> remaining,
                      state |-> state]
    /\ UNCHANGED <<duration, state, clock, ticks, overflow_checks, panicked,
                   anchor>>

Update ==
    /\ ~panicked
    /\ LET now == clock
           elapsed == elapsed_seconds(now, start_time)
           remaining == SaturatingSub32(duration, elapsed)
       IN  \/ /\ sub_overflows(now, start_time) => ~overflow_checks
              /\ current_time' = remaining
              /\ ret' = [op |-> "update", outcome |-> "ok", now |-> now,
                         time |-> remaining,
                         formatted_time |-> format_time(remaining),
                         progress |-> calculate_progress(elapsed, duration),
                         remaining |-> remaining,
                         state |-> state]
              /\ UNCHANGED panicked
           \/ /\ sub_overflows(now, start_time) /\ overflow_checks
              /\ panicked' = TRUE
              /\ ret' = [op |-> "update", outcome |-> "panic", now |-> now]
              /\ UNCHANGED current_time
    /\ UNCHANGED <<start_time, duration, state, clock, ticks,
                   overflow_checks, anchor>>

Reset ==
    /\ ~panicked
    /\ \E new_duration \in Durations, new_state \in TimerState :
         /\ start_time' = clock
         /\ duration' = new_duration
         /\ current_time' = new_duration
         /\ state' = new_state
         /\ ret' = [op |-> "reset", now |-> clock,
                    new_duration |-> new_duration, new_state |-> new_state]
         /\ anchor' = [op |-> "reset", d |-> new_duration, p |-> new_state,
                       t |-> clock]
    /\ UNCHANGED <<clock, ticks, overflow_checks, panicked>>

\* a pause() that recomputes the remaining time from the clock
PauseRecomputes ==
    /\ ~panicked
    /\ LET remaining ==
             SaturatingSub32(duration, elapsed_seconds(clock, start_time))
       IN  /\ current_time' = remaining
           /\ ret' = [op |-> "pause", value |-> remaining]
    /\ UNCHANGED <<start_time, duration, state, clock, ticks, overflow_checks,
                   panicked, anchor>>

Pause ==
    /\ ~panicked
    /\ ret' = [op |-> "pause", value |-> current_time]
    /\ UNCHANGED <<engine, clock, ticks, overflow_checks, panicked, anchor>>

Resume ==
    /\ ~panicked
    /\ \E remaining_time \in Durations :
         /\ start_time' = clock
         /\ duration' = remaining_time
         /\ current_time' = remaining_time
         /\ ret' = [op |-> "resume", now |-> clock,
                    remaining_time |-> remaining_time]
         /\ anchor' = [op |-> "resume", d |-> remaining_time, p |-> anchor.p,
                       t |-> clock]
    /\ UNCHANGED <<state, clock, ticks, overflow_checks, panicked>>

OptimizeDisplayUpdate ==
    /\ ~panicked
    /\ \E last_update \in Durations :
         LET now == clock
             elapsed == elapsed_seconds(now, start_time)
         IN  \/ /\ sub_overflows(now, start_time) => ~overflow_checks
                /\ ret' = [op |-> "optimize_display_update", outcome |-> "ok",
                           now |-> now, last_update |-> last_update,
                           value |-> (elapsed # last_update)]
                /\ UNCHANGED panicked
             \/ /\ sub_overflows(now, start_time) /\ overflow_checks
                /\ panicked' = TRUE
                /\ ret' = [op |-> "optimize_display_update",
                           outcome |-> "panic", now |-> now,
                           last_update |-> last_update]
    /\ UNCHANGED <<engine, clock, ticks, overflow_checks, anchor>>

\* a calculate_next_state() that also moves the engine to the phase it returns
CalculateNextStateApplies ==
    /\ ~panicked
    /\ \E completed \in BOOLEAN :
         /\ ret' = [op |-> "calculate_next_state", completed |-> completed,
                    value |-> next_state(state, completed)]
         /\ state' = next_state(state, completed)
    /\ UNCHANGED <<start_time, duration, current_time, clock, ticks,
                   overflow_checks, panicked, anchor>>

CalculateNextState ==
    /\ ~panicked
    /\ \E completed \in BOOLEAN :
         ret' = [op |-> "calculate_next_state", completed |-> completed,
                 value |-> next_state(state, completed)]
    /\ UNCHANGED <<engine, clock, ticks, overflow_checks, panicked, anchor>>

Next ==
    \/ AdvanceClock
    \/ ClockJitter
    \/ Update
    \/ Reset
    \/ Pause
    \/ Resume
    \/ OptimizeDisplayUpdate
    \/ CalculateNextState

Spec == Init /\ [][Next]_vars

TypeOK ==
    /\ start_time \in Limb \X Limb \X Limb \X Limb
    /\ clock \in Limb \X Limb \X Limb \X Limb
    /\ duration \in Limb \X Limb
    /\ current_time \in Limb \X Limb
    /\ state \in TimerState
    /\ ticks \in 0..MaxTicks
    /\ overflow_checks \in BOOLEAN
    /\ panicked \in BOOLEAN

\* ------------------------------------------------------------------------
\* Reference values, computed without the 32-bit cast
\* ------------------------------------------------------------------------

\* floor((now - t) / 1000) as a 64-bit number, for now >= t
WholeSeconds(now, t) == Div64(Sub64(now, t).val, MsPerSecond)

\* max(0, d - k) for a u32 d and a 64-bit k
ClampedRemaining(d, k) ==
    IF Lt64(Ext32(d), k) THEN Zero32 ELSE WrappingSub32(d, Trunc32(k))

\* the reading `now` is less than one second before the instant t
JitterBefore(now, t) ==
    /\ Lt64(now, t)
    /\ Lt64(Sub64(t, now).val, U64(MsPerSecond))

\* ------------------------------------------------------------------------
\* C1  Saturation of update(): whenever the whole seconds elapsed since the
\* anchor exceed duration, at any magnitude the millisecond clock can
\* produce, update() returns remaining = 0 and time = 0 and leaves the
\* cached current_time at 0.
\* ------------------------------------------------------------------------
UpdateSaturates ==
    ( /\ ret.op = "update"
      /\ Le64(start_time, ret.now)
      /\ Lt64(Ext32(duration), WholeSeconds(ret.now, start_time)) )
    => /\ ret.outcome = "ok"
       /\ ret.remaining = Zero32
       /\ ret.time = Zero32
       /\ current_time = Zero32

ProgressBounded ==
    (ret.op = "update" /\ ret.outcome = "ok" /\ Le64(start_time, ret.now))
    => IF duration = Zero32 THEN ProgressIsZero(ret.progress)
       ELSE ProgressAtMost100(ret.progress)

\* ------------------------------------------------------------------------
\* C4  Totality under clock jitter: when the clock read by update() or
\* optimize_display_update() is a few milliseconds before start_time, the
\* call completes, elapsed is 0 whole seconds and update() returns
\* remaining = duration.
\* ------------------------------------------------------------------------
JitterTolerated ==
    ( /\ ret.op \in {"update", "optimize_display_update"}
      /\ JitterBefore(ret.now, start_time) )
    => /\ ret.outcome = "ok"
       /\ ret.op = "update" => ret.remaining = duration
       /\ ret.op = "optimize_display_update"
            => ret.value = (ret.last_update # Zero32)

\* ------------------------------------------------------------------------
\* C5  Fresh timer: an update() issued after new(duration, phase) before one
\* whole second has elapsed returns remaining = time = duration, the given
\* phase and the MM:SS text of duration; duration 0 is expired at once.
\* ------------------------------------------------------------------------
FreshTimer ==
    ( /\ anchor.op = "new"
      /\ ret.op = "update"
      /\ Le64(anchor.t, ret.now)
      /\ Lt64(Sub64(ret.now, anchor.t).val, U64(MsPerSecond)) )
    => /\ ret.outcome = "ok"
       /\ ret.remaining = anchor.d
       /\ ret.time = anchor.d
       /\ ret.state = anchor.p
       /\ ret.formatted_time = format_time(anchor.d)
       /\ anchor.d = Zero32 => ret.remaining = Zero32

FreshTimerReached ==
    /\ anchor.op = "new"
    /\ anchor.d = U32(2)
    /\ ret.op = "update"
    /\ Lt64(anchor.t, ret.now)
    /\ Lt64(Sub64(ret.now, anchor.t).val, U64(MsPerSecond))
    /\ ret.formatted_time = <<"0", "0", ":", "0", "2">>

\* ------------------------------------------------------------------------
\* C6  Phase changes only by reset: update, pause, resume and
\* calculate_next_state leave state alone, so state is always the phase
\* passed to the most recent reset, or to new when there was no reset.
\* ------------------------------------------------------------------------
PhaseOnlyByReset == state = anchor.p

PhaseKeptReached ==
    /\ anchor.op = "resume"
    /\ ret.op = "calculate_next_state"
    /\ ret.completed
    /\ ret.value # state
    /\ ticks > 0

\* ------------------------------------------------------------------------
\* C7  Frame of update(): update() changes only current_time; start_time,
\* duration and state are as before, and the snapshot carries the engine's
\* state.
\* ------------------------------------------------------------------------
UpdateFrame ==
    [][ret'.op = "update"
         => /\ start_time' = start_time
            /\ duration' = duration
            /\ state' = state
            /\ ret'.outcome = "ok" => ret'.state = state']_vars

UpdateChangedCache ==
    /\ ret.op = "update"
    /\ ret.outcome = "ok"
    /\ anchor.op = "reset"
    /\ current_time # duration
    /\ ret.state = "MicroBreak"

\* ------------------------------------------------------------------------
\* C8  Transition table: calculate_next_state gives Break for (Focus, true),
\* Focus for (Break, true), Focus for (MicroBreak, true) and the phase
\* itself when completed is false; it is total.
\* ------------------------------------------------------------------------
TransitionTable ==
    ret.op = "calculate_next_state"
    => /\ ret.value \in TimerState
       /\ (state = "Focus" /\ ret.completed) => ret.value = "Break"
       /\ (state = "Break" /\ ret.completed) => ret.value = "Focus"
       /\ (state = "MicroBreak" /\ ret.completed) => ret.value = "Focus"
       /\ ~ret.completed => ret.value = state

MicroBreakCompleted ==
    /\ ret.op = "calculate_next_state"
    /\ state = "MicroBreak"
    /\ ret.completed
    /\ ret.value = "Focus"

\* ------------------------------------------------------------------------
\* C9  pause() is a read of the cache: it returns the stored current_time,
\* reads no clock and changes no field, so two pause() calls with no
\* update/reset/resume between them return the same value however far the
\* clock advances.
\* ------------------------------------------------------------------------
PauseReadsCache ==
    [][ret'.op = "pause"
         => /\ ret'.value = current_time
            /\ engine' = engine
            /\ ret.op = "pause" => ret'.value = ret.value]_vars

PausedWhileExpired ==
    /\ ret.op = "pause"
    /\ ret.value = U32(2)
    /\ Le64(start_time, clock)
    /\ Lt64(Ext32(duration), WholeSeconds(clock, start_time))

\* ------------------------------------------------------------------------
\* C10  Re-anchoring starts a fresh countdown: after reset(d, p) or
\* resume(d) at instant t, an update() with k whole seconds elapsed since t
\* returns remaining = max(0, d - k); reset sets the phase to p and resume
\* keeps the previous one.
\* ------------------------------------------------------------------------
ReanchorFreshCountdown ==
    ( /\ anchor.op \in {"reset", "resume"}
      /\ ret.op = "update"
      /\ Le64(anchor.t, ret.now) )
    => /\ ret.outcome = "ok"
       /\ ret.remaining = ClampedRemaining(anchor.d, WholeSeconds(ret.now, anchor.t))
       /\ ret.state = anchor.p

\* ========================================================================
\* Query operations, checked over durations at the boundaries of their tables
\* ========================================================================
ApiDurations == {U32(n) : n \in {0, 61, 100, 301, 1801, 5000}}

\* an interval table whose ranges exclude their upper ends
optimal_update_interval_exclusive(ct) ==
    IF Lt32(ct, U32(60)) THEN 100
    ELSE IF Lt32(ct, U32(300)) THEN 500
    ELSE IF Lt32(ct, U32(1800)) THEN 1000
    ELSE 2000

\* match self.current_time { 0..=60, 61..=300, 301..=1800, _ }
optimal_update_interval(ct) ==
    IF Le32(ct, U32(60)) THEN 100
    ELSE IF Le32(ct, U32(300)) THEN 500
    ELSE IF Le32(ct, U32(1800)) THEN 1000
    ELSE 2000

InitApi ==
    /\ clock = Epoch0
    /\ ticks = 0
    /\ overflow_checks \in BOOLEAN
    /\ panicked = FALSE
    /\ \E d \in ApiDurations, s \in TimerState :
         /\ start_time = clock
         /\ duration = d
         /\ current_time = d
         /\ state = s
         /\ ret = [op |-> "new", now |-> clock, duration |-> d, state |-> s]
         /\ anchor = [op |-> "new", d |-> d, p |-> s, t |-> clock]

GetOptimalUpdateInterval ==
    /\ ~panicked
    /\ ret' = [op |-> "get_optimal_update_interval",
               value |-> optimal_update_interval(current_time)]
    /\ UNCHANGED <<engine, clock, ticks, overflow_checks, panicked, anchor>>

\* x * k for a small factor k, as a 64-bit number
MulSmall64(x, k) ==
    LET p4 == x[4] * k
        p3 == x[3] * k + (p4 \div Base)
        p2 == x[2] * k + (p3 \div Base)
        p1 == x[1] * k + (p2 \div Base)
    IN  <<p1 % Base, p2 % Base, p3 % Base, p4 % Base>>

\* u32 * k: the low 32 bits of the product, and whether it fits in them
Mul32(a, k) ==
    LET full == MulSmall64(Ext32(a), k)
    IN  [val |-> Trunc32(full), overflow |-> (full[1] # 0 \/ full[2] # 0)]

\* current_memory * k / 10 on the wrapped product
scaled_tenths(current_memory, k) ==
    U32(Div32(Mul32(current_memory, k).val, 10))

U32Max == <<Base - 1, Base - 1>>

\* 613566756 = floor((2^32 - 1) / 7) is the largest amount whose sevenfold fits
MemoryAmounts ==
    {U32(n) : n \in {0, 500, 1000, 1001, 5000, 10000, 10001, 20000}}
        \cup {<<9362, 18724>>, <<9362, 18725>>, U32Max}

\* match current_memory { 0..=1000, 1001..=10000, _ }
OptimizeMemoryUsage ==
    /\ ~panicked
    /\ \E current_memory \in MemoryAmounts :
         LET k == IF Le32(current_memory, U32(10000)) THEN 8 ELSE 7
         IN  IF Le32(current_memory, U32(1000))
             THEN /\ ret' = [op |-> "optimize_memory_usage", outcome |-> "ok",
                             current_memory |-> current_memory,
                             value |-> current_memory]
                  /\ UNCHANGED panicked
             ELSE \/ /\ Mul32(current_memory, k).overflow => ~overflow_checks
                     /\ ret' = [op |-> "optimize_memory_usage",
                                outcome |-> "ok",
                                current_memory |-> current_memory,
                                value |-> scaled_tenths(current_memory, k)]
                     /\ UNCHANGED panicked
                  \/ /\ Mul32(current_memory, k).overflow /\ overflow_checks
                     /\ panicked' = TRUE
                     /\ ret' = [op |-> "optimize_memory_usage",
                                outcome |-> "panic",
                                current_memory |-> current_memory]
    /\ UNCHANGED <<engine, clock, ticks, overflow_checks, anchor>>

FormatInputs ==
    {U32(n) : n \in {0, 9, 59, 60, 125, 3599, 5999, 6000, 65535}}
        \cup {U32Max}

CalculateFormattedTime ==
    /\ ~panicked
    /\ \E seconds \in FormatInputs :
         ret' = [op |-> "calculate_formatted_time", seconds |-> seconds,
                 value |-> format_time(seconds)]
    /\ UNCHANGED <<engine, clock, ticks, overflow_checks, panicked, anchor>>

\* a progress figure that stops at 100 percent
progress_percentage_clamped(current, total) ==
    IF total = Zero32 THEN ZeroProgress
    ELSE [num |-> IF Lt32(total, current) THEN total ELSE current,
          den |-> total]

\* if total == 0 { return 0.0; } (current as f64 / total as f64) * 100.0
progress_percentage(current, total) ==
    IF total = Zero32 THEN ZeroProgress
    ELSE [num |-> current, den |-> total]

ProgressArgs == {U32(n) : n \in {0, 50, 100, 150}}

CalculateProgressPercentage ==
    /\ ~panicked
    /\ \E current \in ProgressArgs, total \in ProgressArgs :
         ret' = [op |-> "calculate_progress_percentage",
                 current |-> current, total |-> total,
                 value |-> progress_percentage(current, total)]
    /\ UNCHANGED <<engine, clock, ticks, overflow_checks, panicked, anchor>>

SeqsUpTo(S, n) == UNION {[1..k -> S] : k \in 0..n}

\* a batch whose output is in reverse input order
batch_progress_reversed(times, total) ==
    [j \in 1..Len(times) |->
        progress_percentage(times[Len(times) + 1 - j], total)]

\* times.iter().map(|&time| ...(time, self.duration)).collect()
batch_progress(times, total) ==
    [j \in 1..Len(times) |-> progress_percentage(times[j], total)]

BatchTimes == SeqsUpTo({U32(n) : n \in {0, 50, 100}}, MaxBatch)

BatchCalculateProgress ==
    /\ ~panicked
    /\ \E times \in BatchTimes :
         ret' = [op |-> "batch_calculate_progress", times |-> times,
                 value |-> batch_progress(times, duration)]
    /\ UNCHANGED <<engine, clock, ticks, overflow_checks, panicked, anchor>>

\* the closure body of calculate_multiple_timers for index i
timer_at(i, dur, now) ==
    LET start == Sub64(now, MulSmall64(U64(i), MsPerSecond)).val
        elapsed == Trunc32(Div64(Sub64(now, start).val, MsPerSecond))
        current == SaturatingSub32(dur, elapsed)
    IN  [time |-> current,
         formatted_time |-> Pad02(Div32(current, SecPerMinute)) \o <<":">>
                              \o Pad02(Mod32(current, SecPerMinute)),
         progress |-> IF dur = Zero32 THEN ZeroProgress
                      ELSE [num |-> elapsed, den |-> dur],
         remaining |-> current,
         state |-> "Focus"]

\* a batch that counts its timers from one
multiple_timers_from_one(durations, now) ==
    [j \in 1..Len(durations) |-> timer_at(j, durations[j], now)]

\* durations.iter().enumerate().map(...).collect(), indices from 0
multiple_timers(durations, now) ==
    [j \in 1..Len(durations) |-> timer_at(j - 1, durations[j], now)]

BatchDurations == SeqsUpTo({U32(n) : n \in {0, 1, 5}}, MaxBatch)

CalculateMultipleTimers ==
    /\ ~panicked
    /\ \E durations \in BatchDurations :
         ret' = [op |-> "calculate_multiple_timers", durations |-> durations,
                 value |-> multiple_timers(durations, clock)]
    /\ UNCHANGED <<engine, clock, ticks, overflow_checks, panicked, anchor>>

\* the methods that read the engine, over the boundary durations
NextApi ==
    \/ AdvanceClock
    \/ Update
    \/ GetOptimalUpdateInterval
    \/ CalculateFormattedTime
    \/ BatchCalculateProgress

SpecApi == InitApi /\ [][NextApi]_vars

\* the functions that take all their inputs as arguments
NextFree ==
    \/ AdvanceClock
    \/ CalculateProgressPercentage
    \/ OptimizeMemoryUsage

SpecFree == Init /\ [][NextFree]_vars

\* the batch of staggered timers, beside an engine and a moving clock
NextBatch ==
    \/ AdvanceClock
    \/ CalculateMultipleTimers

SpecBatch == Init /\ [][NextBatch]_vars

MemoryBudget ==
    ret.op = "optimize_memory_usage"
    => /\ ret.outcome = "ok"
       /\ Le32(ret.current_memory, U32(1000)) => ret.value = ret.current_memory
       /\ ( /\ Lt32(U32(1000), ret.current_memory)
            /\ Le32(ret.current_memory, U32(10000)) )
          => Ext32(ret.value) = Div64(MulSmall64(Ext32(ret.current_memory), 8), 10)
       /\ Lt32(U32(10000), ret.current_memory)
          => Ext32(ret.value) = Div64(MulSmall64(Ext32(ret.current_memory), 7), 10)

\* ------------------------------------------------------------------------
\* C13  optimize_display_update returns true exactly when
\* floor((now - start_time) / 1000) differs from the argument, and false
\* when they are equal; it changes no field.  Stated for readings at or
\* after the anchor, where the subtraction is exact.
\* ------------------------------------------------------------------------
RepaintWhenSecondChanged ==
    (ret.op = "optimize_display_update" /\ Le64(start_time, ret.now))
    => /\ ret.outcome = "ok"
       /\ ret.value = (WholeSeconds(ret.now, start_time) # Ext32(ret.last_update))

\* ------------------------------------------------------------------------
\* Reading a formatted text back
\* ------------------------------------------------------------------------
DigitValue(c) == CHOOSE i \in 0..9 : DigitChars[i + 1] = c

IsDigits(t) == \A i \in 1..Len(t) : \E k \in 1..10 : DigitChars[k] = t[i]

RECURSIVE ParseDecimal(_)
ParseDecimal(t) ==
    IF Len(t) = 0 THEN 0
    ELSE 10 * ParseDecimal(SubSeq(t, 1, Len(t) - 1)) + DigitValue(t[Len(t)])

\* text is M ":" S with M of at least two digits, zero-padded only up to two,
\* S of exactly two digits, 0 <= S <= 59 and 60 * M + S = seconds
IsMinutesSeconds(text, seconds) ==
    /\ Len(text) >= 5
    /\ text[Len(text) - 2] = ":"
    /\ LET m == SubSeq(text, 1, Len(text) - 3)
           sec == SubSeq(text, Len(text) - 1, Len(text))
       IN  /\ IsDigits(m)
           /\ IsDigits(sec)
           /\ Len(m) > 2 => m[1] # "0"
           /\ ParseDecimal(sec) <= 59
           /\ Add64(MulSmall64(U64(ParseDecimal(m)), SecPerMinute),
                    U64(ParseDecimal(sec))).val = Ext32(seconds)

\* ------------------------------------------------------------------------
\* C14  format_time: the text is M ":" S, M the decimal of seconds div 60
\* padded to at least two digits (more digits from 100 minutes on), S the
\* decimal of seconds mod 60 in exactly two digits; 125 gives "02:05", 0
\* gives "00:00", 3599 gives "59:59"; update()'s formatted_time is the text
\* of the remaining it returns.
\* ------------------------------------------------------------------------
FormatDuration ==
    /\ ret.op = "calculate_formatted_time"
       => /\ IsMinutesSeconds(ret.value, ret.seconds)
          /\ ret.seconds = U32(125) => ret.value = <<"0", "2", ":", "0", "5">>
          /\ ret.seconds = U32(0) => ret.value = <<"0", "0", ":", "0", "0">>
          /\ ret.seconds = U32(3599) => ret.value = <<"5", "9", ":", "5", "9">>
    /\ (ret.op = "update" /\ ret.outcome = "ok")
       => IsMinutesSeconds(ret.formatted_time, ret.remaining)

HundredMinutesFormatted ==
    /\ ret.op = "calculate_formatted_time"
    /\ ret.seconds = U32(6000)
    /\ ret.value = <<"1", "0", "0", ":", "0", "0">>

\* ------------------------------------------------------------------------
\* Progress figures as numbers: p is the percentage 100 * c / t
\* ------------------------------------------------------------------------
Small(a) == a[1] * Base + a[2]

IsPercentageOf(p, c, t) ==
    /\ p.den # Zero32
    /\ Small(p.num) * Small(t) = Small(c) * Small(p.den)

IsPercent(p, n) == 100 * Small(p.num) = n * Small(p.den)

\* ------------------------------------------------------------------------
\* C15  calculate_progress_percentage: 0 when total is 0, otherwise the
\* ratio current * 100 / total, not clamped and above 100 whenever
\* current > total > 0; it neither depends on nor changes the engine.
\* ------------------------------------------------------------------------
ProgressOf ==
    [][ret'.op = "calculate_progress_percentage"
         => /\ engine' = engine
            /\ ret'.total = Zero32 => IsPercent(ret'.value, 0)
            /\ ret'.total # Zero32
                 => IsPercentageOf(ret'.value, ret'.current, ret'.total)
            /\ (Lt32(Zero32, ret'.total) /\ Lt32(ret'.total, ret'.current))
                 => ~ProgressAtMost100(ret'.value)
            /\ (ret'.current = U32(50) /\ ret'.total = U32(100))
                 => IsPercent(ret'.value, 50)]_vars

ProgressAboveHundred ==
    /\ ret.op = "calculate_progress_percentage"
    /\ ret.current = U32(150)
    /\ ret.total = U32(100)
    /\ IsPercent(ret.value, 150)

\* ------------------------------------------------------------------------
\* C16  calculate_multiple_timers: the output has the length of the input
\* and its i-th snapshot (from 0) has exactly i seconds elapsed:
\* remaining = time = max(0, durations[i] - i), progress 0 for a zero
\* duration and i * 100 / durations[i] otherwise, the MM:SS text of
\* remaining and phase Focus, whatever the engine and the clock are.
\* ------------------------------------------------------------------------
MultipleTimers ==
    [][ret'.op = "calculate_multiple_timers"
         => /\ engine' = engine
            /\ Len(ret'.value) = Len(ret'.durations)
            /\ \A j \in 1..Len(ret'.durations) :
                 LET d == ret'.durations[j]
                     v == ret'.value[j]
                 IN  /\ v.remaining = ClampedRemaining(d, U64(j - 1))
                     /\ v.time = v.remaining
                     /\ d = Zero32 => IsPercent(v.progress, 0)
                     /\ d # Zero32 => IsPercentageOf(v.progress, U32(j - 1), d)
                     /\ IsMinutesSeconds(v.formatted_time, v.remaining)
                     /\ v.state = "Focus"]_vars

\* two timers, the second one second into a one second duration
StaggeredBatch ==
    /\ ret.op = "calculate_multiple_timers"
    /\ ret.durations = <<U32(5), U32(1)>>
    /\ ret.value[1].remaining = U32(5)
    /\ ret.value[2].remaining = Zero32
    /\ IsPercent(ret.value[2].progress, 100)
    /\ state # "Focus"
    /\ clock # Epoch0

\* ------------------------------------------------------------------------
\* C17  batch_calculate_progress: the output has the length of the input
\* and its i-th element is the progress of times[i] against the engine's
\* duration, in input order (all zeros for duration 0); no field changes.
\* ------------------------------------------------------------------------
BatchProgress ==
    [][ret'.op = "batch_calculate_progress"
         => /\ engine' = engine
            /\ Len(ret'.value) = Len(ret'.times)
            /\ \A j \in 1..Len(ret'.times) :
                 /\ duration = Zero32 => IsPercent(ret'.value[j], 0)
                 /\ duration # Zero32
                      => IsPercentageOf(ret'.value[j], ret'.times[j], duration)
            /\ (duration = U32(100) /\ ret'.times = <<U32(50), U32(100)>>)
                 => /\ IsPercent(ret'.value[1], 50)
                    /\ IsPercent(ret'.value[2], 100)]_vars

BatchInOrder ==
    /\ ret.op = "batch_calculate_progress"
    /\ duration = U32(100)
    /\ ret.times = <<U32(50), U32(100)>>
    /\ IsPercent(ret.value[1], 50)
    /\ IsPercent(ret.value[2], 100)

\* ========================================================================
\* One engine under a clock that never goes back
\* ========================================================================
\* one second short of 2^32 seconds, in milliseconds
FarStep == <<0, 999, 65535, 64536>>

AdvanceClockFar ==
    /\ ticks < MaxTicks
    /\ Add64(clock, FarStep).carry = 0
    /\ Le64(Add64(clock, FarStep).val, MaxDate)
    /\ clock' = Add64(clock, FarStep).val
    /\ ticks' = ticks + 1
    /\ UNCHANGED <<engine, overflow_checks, panicked, ret, anchor>>

NextMono ==
    \/ AdvanceClock
    \/ AdvanceClockFar
    \/ Update
    \/ Pause
    \/ Reset
    \/ Resume

SpecMono == Init /\ [][NextMono]_vars

\* ------------------------------------------------------------------------
\* C18  Countdown monotonicity: with a non-decreasing clock, the remaining
\* values of successive update() calls with no reset or resume between them
\* do not increase and never exceed duration, and time = remaining in every
\* snapshot.
\* ------------------------------------------------------------------------
CountdownMonotone ==
    [][( /\ ret.op = "update" /\ ret.outcome = "ok"
         /\ ret'.op = "update" /\ ret'.outcome = "ok" )
         => /\ Le32(ret'.remaining, ret.remaining)
            /\ Le32(ret'.remaining, duration')
            /\ ret'.time = ret'.remaining]_vars

\* ------------------------------------------------------------------------
\* C19  Stable expiry: once update() has returned remaining = 0, every
\* later update() returns 0 as well until a reset or resume.  (The cached
\* current_time is 0 from that update on.)
\* ------------------------------------------------------------------------
ExpiryStable ==
    [][( /\ current_time = Zero32
         /\ anchor' = anchor
         /\ ret'.op = "update" /\ ret'.outcome = "ok" )
         => ret'.remaining = Zero32]_vars

\* ========================================================================
\* The host protocol: on completion the host asks calculate_next_state(true)
\* and calls reset with the phase it returned
\* ========================================================================
HostReset ==
    /\ ~panicked
    /\ ret.op = "calculate_next_state"
    /\ ret.completed
    /\ \E new_duration \in Durations :
         /\ start_time' = clock
         /\ duration' = new_duration
         /\ current_time' = new_duration
         /\ state' = ret.value
         /\ ret' = [op |-> "reset", now |-> clock,
                    new_duration |-> new_duration, new_state |-> ret.value]
         /\ anchor' = [op |-> "reset", d |-> new_duration, p |-> ret.value,
                       t |-> clock]
    /\ UNCHANGED <<clock, ticks, overflow_checks, panicked>>

NextHost ==
    \/ AdvanceClock
    \/ Update
    \/ Pause
    \/ Resume
    \/ CalculateNextState
    \/ HostReset

SpecHost == Init /\ [][NextHost]_vars

\* ------------------------------------------------------------------------
\* C20  Phase cycle under the host protocol: calculate_next_state(true)
\* never returns MicroBreak; every completion leaves the engine in Focus or
\* Break and in a phase different from the one before, so after the first
\* completion Focus and Break alternate; MicroBreak is never entered.
\* ------------------------------------------------------------------------
PhaseCycle ==
    [][/\ (ret'.op = "calculate_next_state" /\ ret'.completed)
            => ret'.value # "MicroBreak"
       /\ (ret.op = "calculate_next_state" /\ ret'.op = "reset")
            => /\ state' \in {"Focus", "Break"}
               /\ state' # state
               /\ state = "Focus" => state' = "Break"
       /\ state' = "MicroBreak" => state = "MicroBreak"]_vars

\* in Break after a completion, the next completion leads back to Focus
BackToFocus ==
    /\ anchor.op = "reset"
    /\ state = "Break"
    /\ ret.op = "calculate_next_state"
    /\ ret.completed
    /\ ret.value = "Focus"

====
